---- MODULE Spec2Model ----
(***************************************************************************)
(* MashSong: key/tempo matching heuristics, stem creation, mashing,        *)
(* measure/section synchronisation and stem separation.                    *)
(*                                                                         *)
(* src/mashsong/ holds the current program, src/*.py the older copy of it; *)
(* definitions ending in _root model the older copy, and the variable      *)
(* variant says which copy runs.                                           *)
(***************************************************************************)
EXTENDS Integers, Sequences, FiniteSets, TLC

VARIABLES
    self_bpm, target_bpm, closest_bpm, bpm_pc,      \* one find_closest_bpm call
    self_key, target_key, key_shift, key_pc,        \* one find_closest_key_shift call
    song,                                           \* the two MashSong objects, None until built
    last,                                           \* the last Masher/MashSong call and its outcome
    analysis,                                       \* info['sections'] as given to MashSong.__init__
    measures, sections,                             \* song.measures, song.sections
    loop_measures, sync_i,                          \* sync_sections_to_measures: its local measures, sections done
    init_status,                                    \* MashSong.__init__: "new", "sync" (sections built), or the exception raised
    longest,                                        \* the last get_longest_section call and its result
    variant,                                        \* the copy of the program that runs: "mashsong" or "root"
    platform,                                       \* os.name of the machine: "posix" or "nt"
    audio_loader, separator, save_data,             \* class attributes of Masher
    wav_list, sep_i, sep_status, saved              \* separate_from_list: its argument, calls done, outcome, files saved

tempo_vars == <<self_bpm, target_bpm, closest_bpm, bpm_pc>>
key_vars == <<self_key, target_key, key_shift, key_pc>>
song_vars == <<song, last>>
sync_vars == <<analysis, measures, sections, loop_measures, sync_i, init_status, longest>>
sep_vars == <<variant, platform, audio_loader, separator, save_data, wav_list, sep_i, sep_status, saved>>
vars == <<tempo_vars, key_vars, song_vars, sync_vars, sep_vars>>

(***************************************************************************)
(* Bounds of the model.                                                    *)
(***************************************************************************)
MaxBpm == 8          \* find_closest_bpm is applied to tempos in 1..MaxBpm
MaxSongBpm == 3      \* a loaded song's tempo is in 1..MaxSongBpm
MaxSec == 1          \* section indexes passed to calls are in 0..MaxSec
MaxTime == 4         \* measure and section times are in 0..MaxTime
MaxMeasures == 3     \* song.measures holds 1..MaxMeasures times
MaxSections == 2     \* a song has 1..MaxSections sections
MaxList == 3         \* separate_from_list is given 0..MaxList filenames

(***************************************************************************)
(* Python values.  An optional argument is <<>> (None) or <<v>>.           *)
(***************************************************************************)
None == <<>>
Some(v) == <<v>>

(***************************************************************************)
(* Python floats that arise from tempos: exact rationals <<num, den>>,     *)
(* kept in lowest terms with den > 0 (x*2, x/2 and (x+y)/2 are exact in    *)
(* binary floating point).                                                 *)
(***************************************************************************)
RECURSIVE Gcd(_, _)
Gcd(a, b) == IF b = 0 THEN a ELSE Gcd(b, a % b)

Abs(n) == IF n < 0 THEN -n ELSE n

Rat(n, d) ==
    LET g == Gcd(Abs(n), d)
    IN  IF n = 0 THEN <<0, 1>> ELSE <<n \div g, d \div g>>

RSub(a, b) == Rat(a[1] * b[2] - b[1] * a[2], a[2] * b[2])
RAdd(a, b) == Rat(a[1] * b[2] + b[1] * a[2], a[2] * b[2])
RMul(a, b) == Rat(a[1] * b[1], a[2] * b[2])
RDiv(a, b) == Rat(a[1] * b[2], a[2] * b[1])
RAbs(a) == <<Abs(a[1]), a[2]>>
RLess(a, b) == a[1] * b[2] < b[1] * a[2]
RInt(n) == <<n, 1>>

(***************************************************************************)
(* find_closest_bpm: self_bpm, doubled when self is slower than target and *)
(* the double is strictly closer, halved when self is not slower and the   *)
(* half is strictly closer.                                                *)
(***************************************************************************)
find_closest_bpm_tie(s_bpm, t_bpm) ==
    LET diff == RAbs(RSub(t_bpm, s_bpm))
        dbl == RMul(s_bpm, RInt(2))
        half == RDiv(s_bpm, RInt(2))
    IN  IF RLess(s_bpm, t_bpm)
        THEN IF ~RLess(diff, RAbs(RSub(t_bpm, dbl))) THEN dbl ELSE s_bpm
        ELSE IF ~RLess(diff, RAbs(RSub(t_bpm, half))) THEN half ELSE s_bpm

find_closest_bpm(s_bpm, t_bpm) ==
    LET diff == RAbs(RSub(t_bpm, s_bpm))
        dbl == RMul(s_bpm, RInt(2))
        half == RDiv(s_bpm, RInt(2))
    IN  IF RLess(s_bpm, t_bpm)
        THEN IF RLess(RAbs(RSub(t_bpm, dbl)), diff) THEN dbl ELSE s_bpm
        ELSE IF RLess(RAbs(RSub(t_bpm, half)), diff) THEN half ELSE s_bpm

(***************************************************************************)
(* Musical keys.  A track's key is (key_no, mode): key_no 0..11 indexes    *)
(* __notes (C, C#, ..., B).  A music21 key.Key is modelled by its spelling: *)
(* sharps is the number of sharps of its signature (negative for flats),   *)
(* tonic the place of its tonic on the line of fifths (C 0, G 1, ..., F -1, *)
(* Bb -2, ...), so that enharmonic tonics such as D# and Eb, or B# and C,  *)
(* are different pitches.                                                  *)
(***************************************************************************)
NumNotes == 12
Modes == {"minor", "major"}
Keys == [tonic : 0 .. NumNotes - 1, mode : Modes]

\* __notes[key_no] on the line of fifths: C, C#, D, D#, E, F, F#, G, G#, A, A#, B
NoteFifths == <<0, 7, 2, 9, 4, -1, 6, 1, 8, 3, 10, 5>>

\* music21 modeSharpsAlter: a minor key has three sharps fewer than the major key of its tonic
modeSharpsAlter(mode) == IF mode = "minor" THEN -3 ELSE 0

\* key.Key(__notes[key_no], mode)
Key(k) ==
    [tonic |-> NoteFifths[k.tonic + 1],
     sharps |-> NoteFifths[k.tonic + 1] + modeSharpsAlter(k.mode),
     mode |-> k.mode]

\* KeySignature(sharps).asKey(mode): the tonic is spelled from the signature
asKey(sharps, mode) ==
    [tonic |-> sharps - modeSharpsAlter(mode), sharps |-> sharps, mode |-> mode]

\* pitchFromDegree(1).ps: the tonic's pitch space number in the implied octave 4,
\* step F, C, G, D, A, E, B plus one per sharp (B# is 72, Cb is 59)
StepPs == <<65, 60, 67, 62, 69, 64, 71>>
ps(K) == StepPs[((K.tonic + 1) % 7) + 1] + ((K.tonic + 1) \div 7)

\* interval.Interval(n) for n semitones (P1, m2, M2, m3, M3, P4, d5, P5, m6, M6,
\* m7, M7, octaves added) as a move on the line of fifths
IntervalFifths == <<0, -5, 2, -3, 4, -1, -6, 1, -4, 3, -2, 5>>

\* Pitch.getEnharmonic of a pitch with sharps or flats
getEnharmonic(f) == IF f > 0 THEN f - 12 ELSE f + 12

\* Key.transpose(n), n an int: the major tonic of the signature is moved by the
\* interval, respelled when it has more than six sharps or flats, and the key
\* of the same mode is taken from the new signature
transpose(K, n) ==
    LET p2 == K.sharps + (IF n < 0 THEN 0 - IntervalFifths[((0 - n) % 12) + 1]
                                   ELSE IntervalFifths[(n % 12) + 1])
    IN  asKey(IF Abs(p2) > 6 THEN getEnharmonic(p2) ELSE p2, K.mode)

relative_same_tonic(K) ==
    [tonic |-> K.tonic, sharps |-> K.sharps,
     mode |-> IF K.mode = "major" THEN "minor" ELSE "major"]

\* Key.relative: the key of the other mode with the same signature; no respelling
relative(K) ==
    asKey(K.sharps, IF K.mode = "major" THEN "minor" ELSE "major")

\* Python round(num/den) for den > 0: to the nearest integer, ties to even.
PyRound(num, den) ==
    LET q == num \div den
        r == num % den
    IN  IF 2 * r < den THEN q
        ELSE IF 2 * r > den THEN q + 1
        ELSE IF q % 2 = 0 THEN q ELSE q + 1

\* The while loop: the least diff >= 1 such that self.key.transpose(diff) has
\* the .ps and mode of target's key or of target's relative key.  transpose
\* depends on diff modulo 12 only, so when no diff in 1..12 matches the loop
\* never ends: None.
RECURSIVE key_shift_loop(_, _, _)
key_shift_loop(s_key, t_key, diff) ==
    LET new_key == transpose(s_key, diff)
    IN  IF diff > NumNotes THEN None
        ELSE IF ps(new_key) = ps(t_key) /\ new_key.mode = t_key.mode THEN Some(diff)
        ELSE IF ps(new_key) = ps(relative(t_key))
                /\ new_key.mode = relative(t_key).mode THEN Some(diff)
        ELSE key_shift_loop(s_key, t_key, diff + 1)

\* diff - .1 or -12.1 + diff, in tenths of a semitone.
key_shift_tenths(diff) == IF diff > 6 THEN diff * 10 - 121 ELSE diff * 10 - 1

\* The shift returned for two tracks' keys, None when the call does not return.
find_closest_key_shift_whole(s_key, t_key) ==
    LET diff == key_shift_loop(Key(s_key), Key(t_key), 1)
    IN  IF diff = None THEN None ELSE Some(PyRound(key_shift_tenths(diff[1]), 10))

find_closest_key_shift(s_key, t_key) ==
    LET diff == key_shift_loop(Key(s_key), Key(t_key), 1)
    IN  IF diff = None THEN None ELSE Some(PyRound(key_shift_tenths(diff[1]), 20))

\* Two keys with the same tonic pitch class and mode, whatever their spelling.
SameKey(K1, K2) == ps(K1) % NumNotes = ps(K2) % NumNotes /\ K1.mode = K2.mode

\* K is the key of track key t or its relative key.
KeyOrRelative(K, t) == SameKey(K, Key(t)) \/ SameKey(K, relative(Key(t)))

\* The track keys of the same tonic and the other mode.
parallel(k) ==
    [tonic |-> k.tonic, mode |-> IF k.mode = "major" THEN "minor" ELSE "major"]

(***************************************************************************)
(* MashSong objects.  A song is [key_no, mode, bpm, stems]; stems maps a   *)
(* stem name to an audio segment.  A segment records what was done to the  *)
(* audio: the file it comes from (owner, src), the section range it was    *)
(* cut to, the pitch shift and tempo ratio handed to the stretcher, and    *)
(* the effects board.                                                      *)
(***************************************************************************)
SongIds == {"voc", "acc"}

FileStem(owner, type) ==
    [owner |-> owner, src |-> type, secs |-> None,
     pitch |-> None, tempo |-> None, board |-> "none"]

\* stem_segment[start_time*1000 : end_time*1000]
Slice(stem, secs) == [stem EXCEPT !.secs = Some(secs)]

\* fetch_stems: one entry per stem file found for the title.
fetch_stems(owner, names) == [n \in names |-> FileStem(owner, n)]

\* MashSong.__init__ (src/mashsong/mashdata.py).  Inside the class body the
\* module globals __modes and __notes are read under their mangled names
\* _MashSong__modes and _MashSong__notes, which do not exist: the constructor
\* raises NameError when it reads the mode, before bpm, sections, measures or
\* stems are assigned.
NewSong(id, key_no, mode, bpm, names) ==
    [status |-> "NameError", song |-> None]

\* The older MashSong.__init__ (src/mashdata.py): key is the integer 0..11,
\* there is no mode.
NewSong_root(id, key_no, bpm, names) ==
    [status |-> "ok",
     song |-> [key_no |-> key_no, bpm |-> bpm, stems |-> fetch_stems(id, names)]]

KeyOf(sng) == [tonic |-> sng.key_no, mode |-> sng.mode]

\* A Python dict after d[k] = v.
DictSet(d, k, v) == [n \in DOMAIN d \cup {k} |-> IF n = k THEN v ELSE d[n]]

\* `not x` for an optional int (None or 0 is falsy).
NotInt(x) == x = None \/ x[1] = 0
\* `not x` for an optional float.
NotFloat(x) == x = None \/ x[1][1] = 0

\* The outcome of a call that raises exc: nothing was stored or returned.
Raise(S, exc) ==
    [status |-> exc, songs |-> S, ret |-> None, shift_amt |-> None, bpm_ratio |-> None]

(***************************************************************************)
(* MashSong.create_mash_stem (src/mashsong/mashdata.py).  S is the state   *)
(* of the songs, me the song the method is called on, target_song None or  *)
(* Some(id).  Returns the outcome, the songs after the call and the stem   *)
(* returned.                                                               *)
(***************************************************************************)
create_mash_stem(S, me, new_stem_name, src_stem_type, secs, shift_amt, bpm_ratio, target_song) ==
    IF src_stem_type \notin DOMAIN S[me].stems THEN Raise(S, "KeyError")
    ELSE IF (NotInt(shift_amt) \/ NotFloat(bpm_ratio)) /\ target_song = None
    THEN Raise(S, "AttributeError")
    ELSE IF NotInt(shift_amt)
            /\ find_closest_key_shift(KeyOf(S[me]), KeyOf(S[target_song[1]])) = None
    THEN Raise(S, "NoReturn")
    ELSE
    LET stem_segment == Slice(S[me].stems[src_stem_type], secs)
        shift == IF NotInt(shift_amt)
                 THEN find_closest_key_shift(KeyOf(S[me]), KeyOf(S[target_song[1]]))[1]
                 ELSE shift_amt[1]
        new_bpm == IF NotFloat(bpm_ratio)
                   THEN find_closest_bpm(S[me].bpm, S[target_song[1]].bpm)
                   ELSE S[me].bpm
        ratio == IF NotFloat(bpm_ratio)
                 THEN RDiv(RDiv(RAdd(new_bpm, S[target_song[1]].bpm), RInt(2)), new_bpm)
                 ELSE bpm_ratio[1]
        mash_stem == [stem_segment EXCEPT
                        !.pitch = Some(shift), !.tempo = Some(ratio),
                        !.board = IF src_stem_type = "Vocals" THEN "vocals" ELSE "other"]
    IN  [status |-> "ok",
         songs |-> [S EXCEPT ![me].bpm = new_bpm,
                             ![me].stems = DictSet(@, new_stem_name, mash_stem)],
         ret |-> Some(mash_stem), shift_amt |-> Some(shift), bpm_ratio |-> Some(ratio)]

(***************************************************************************)
(* The older create_mash_stem (src/mashdata.py).  pitch_shift_by_frame     *)
(* builds the re-pitched segment and then returns the samples of the       *)
(* segment it was given, so the stem keeps its pitch.                      *)
(***************************************************************************)
pitch_shift_by_frame(stem_segment, shift_amt) == stem_segment

create_mash_stem_root_drop(S, me, new_stem_name, src_stem_type, secs, t_key, t_bpm, target_song) ==
    LET tk == IF target_song # None THEN Some(S[target_song[1]].key_no) ELSE t_key
        tb == IF target_song # None THEN Some(S[target_song[1]].bpm) ELSE t_bpm
    IN
    IF target_song = None /\ ~(~NotInt(t_key) \/ ~NotFloat(t_bpm))
    THEN Raise(S, "ValueError")
    ELSE IF src_stem_type \notin DOMAIN S[me].stems THEN Raise(S, "KeyError")
    ELSE IF tk = None \/ tb = None THEN Raise(S, "TypeError")
    ELSE
    LET stem_segment == Slice(S[me].stems[src_stem_type], secs)
        shift_amt == <<tk[1] - S[me].key_no, 12>>
        pitched == pitch_shift_by_frame(stem_segment, shift_amt)
        ratio == RDiv(tb[1], S[me].bpm)
        mash_stem == [pitched EXCEPT !.tempo = Some(ratio)]
    IN  [status |-> "ok",
         songs |-> [S EXCEPT ![me].stems = [n \in {new_stem_name} |-> mash_stem]],
         ret |-> Some(mash_stem), shift_amt |-> Some(shift_amt), bpm_ratio |-> Some(ratio)]

create_mash_stem_root(S, me, new_stem_name, src_stem_type, secs, t_key, t_bpm, target_song) ==
    LET tk == IF target_song # None THEN Some(S[target_song[1]].key_no) ELSE t_key
        tb == IF target_song # None THEN Some(S[target_song[1]].bpm) ELSE t_bpm
    IN
    IF target_song = None /\ ~(~NotInt(t_key) \/ ~NotFloat(t_bpm))
    THEN Raise(S, "ValueError")
    ELSE IF src_stem_type \notin DOMAIN S[me].stems THEN Raise(S, "KeyError")
    ELSE IF tk = None \/ tb = None THEN Raise(S, "TypeError")
    ELSE
    LET stem_segment == Slice(S[me].stems[src_stem_type], secs)
        shift_amt == <<tk[1] - S[me].key_no, 12>>
        pitched == pitch_shift_by_frame(stem_segment, shift_amt)
        ratio == RDiv(tb[1], S[me].bpm)
        mash_stem == [pitched EXCEPT !.tempo = Some(ratio)]
    IN  [status |-> "ok",
         songs |-> [S EXCEPT ![me].stems = DictSet(@, new_stem_name, mash_stem)],
         ret |-> Some(mash_stem), shift_amt |-> Some(shift_amt), bpm_ratio |-> Some(ratio)]

\* AudioSegment.overlay: seg laid over base.
Overlay(base, seg) == <<base, seg>>

(***************************************************************************)
(* Masher.mash (src/mashsong/masher.py): both stems are made with          *)
(* create_mash_stem, each with the other song as target; the shorter one   *)
(* is the base of the overlay.  pitch_voc and gain are not read.           *)
(***************************************************************************)
mash(S, voc, acc, voc_secs, acc_secs, pitch_voc, voc_longer) ==
    LET r1 == create_mash_stem(S, voc, "VocMash", "Vocals", voc_secs,
                               None, None, Some(acc))
        r2 == create_mash_stem(r1.songs, acc, "AccMash", "Accompaniment", acc_secs,
                               None, None, Some(voc))
    IN  IF r1.status # "ok" THEN r1
        ELSE IF r2.status # "ok" THEN r2
        ELSE [status |-> "ok", songs |-> r2.songs,
              ret |-> Some(IF voc_longer THEN Overlay(r2.ret[1], r1.ret[1])
                                         ELSE Overlay(r1.ret[1], r2.ret[1])),
              shift_amt |-> None, bpm_ratio |-> None]

(***************************************************************************)
(* The older Masher.mash (src/masher.py): one stem is made with            *)
(* create_mash_stem, the other song's stem is cut to its sections as is.   *)
(***************************************************************************)
mash_root(S, voc, acc, voc_secs, acc_secs, pitch_voc) ==
    LET me == IF pitch_voc THEN voc ELSE acc
        other == IF pitch_voc THEN acc ELSE voc
        r == IF pitch_voc
             THEN create_mash_stem_root(S, voc, "VocMash", "Vocals", voc_secs,
                                        None, None, Some(acc))
             ELSE create_mash_stem_root(S, acc, "AccMash", "Accompaniment", acc_secs,
                                        None, None, Some(voc))
        other_type == IF pitch_voc THEN "Accompaniment" ELSE "Vocals"
        other_secs == IF pitch_voc THEN acc_secs ELSE voc_secs
    IN  IF r.status # "ok" THEN r
        ELSE IF other_type \notin DOMAIN r.songs[other].stems
        THEN Raise(r.songs, "KeyError")
        ELSE [status |-> "ok", songs |-> r.songs,
              ret |-> Some(Overlay(r.ret[1],
                                   Slice(r.songs[other].stems[other_type], other_secs))),
              shift_amt |-> None, bpm_ratio |-> None]

(***************************************************************************)
(* Section.sync_to_measure and MashSong.sync_sections_to_measures          *)
(* (src/mashsong/mashdata.py).  Arrays are sequences; a Python index i     *)
(* counts from 0 and, when negative, from the end.                         *)
(***************************************************************************)
PyIndex(a, i) == a[IF i < 0 THEN Len(a) + i + 1 ELSE i + 1]

\* The stop of the slice a[:e], clamped as Python clamps it.
SliceStop(a, e) ==
    IF e < 0 THEN (IF Len(a) + e < 0 THEN 0 ELSE Len(a) + e)
    ELSE (IF e > Len(a) THEN Len(a) ELSE e)

\* a[0:e]
PySliceTo(a, e) == SubSeq(a, 1, SliceStop(a, e))

NpDeleteTo_short(a, e) ==
    SubSeq(a, IF SliceStop(a, e) > 1 THEN SliceStop(a, e) ELSE 1, Len(a))

\* np.delete(a, np.s_[:e])
NpDeleteTo(a, e) == SubSeq(a, SliceStop(a, e) + 1, Len(a))

\* np.searchsorted(a, v, "left") on a sorted array: the number of elements below v.
searchsorted_left(a, v) == Cardinality({i \in 1 .. Len(a) : a[i] < v})

Section(section_data, index) ==
    [index |-> index, start_time |-> section_data.start,
     duration |-> section_data.duration,
     end_time |-> section_data.start + section_data.duration,
     track_measures |-> <<>>]

\* The index of the measure the section's end is synced to.
sync_end_ind(sec) ==
    LET tm == sec.track_measures
        found == searchsorted_left(tm, sec.end_time) - 1
        end_ind == IF found >= Len(tm) - 1 THEN found - 1 ELSE found
    IN  IF sec.end_time - PyIndex(tm, end_ind) > PyIndex(tm, end_ind + 1) - sec.end_time
        THEN end_ind + 1 ELSE end_ind

\* sync_to_measure: the section after the call, and the index returned.
sync_to_measure(sec) ==
    LET tm == sec.track_measures
        start_ind == 0
        end_ind == sync_end_ind(sec)
    IN  [section |-> [sec EXCEPT !.start_time = PyIndex(tm, start_ind),
                                 !.end_time = PyIndex(tm, end_ind),
                                 !.duration = PyIndex(tm, end_ind) - PyIndex(tm, start_ind),
                                 !.track_measures = PySliceTo(tm, end_ind)],
         end_ind |-> end_ind]

\* The older sync_to_measure (src/mashdata.py): the measure at or before the
\* section's end, with no step to the closer one.
sync_to_measure_root(sec) ==
    LET tm == sec.track_measures
        start_ind == 0
        end_ind == searchsorted_left(tm, sec.end_time) - 1
    IN  [section |-> [sec EXCEPT !.start_time = PyIndex(tm, start_ind),
                                 !.end_time = PyIndex(tm, end_ind),
                                 !.duration = PyIndex(tm, end_ind) - PyIndex(tm, start_ind),
                                 !.track_measures = PySliceTo(tm, end_ind)],
         end_ind |-> end_ind]

RECURSIVE insert_by_duration_ties_first(_, _)
insert_by_duration_ties_first(sorted_sections, sec) ==
    IF sorted_sections = <<>> THEN <<sec>>
    ELSE IF Head(sorted_sections).duration > sec.duration
         THEN <<Head(sorted_sections)>>
                  \o insert_by_duration_ties_first(Tail(sorted_sections), sec)
         ELSE <<sec>> \o sorted_sections

\* list.insert of sec into a list sorted by decreasing duration, after every
\* element whose duration is not smaller (sorted is stable, also with reverse).
RECURSIVE insert_by_duration(_, _)
insert_by_duration(sorted_sections, sec) ==
    IF sorted_sections = <<>> THEN <<sec>>
    ELSE IF Head(sorted_sections).duration >= sec.duration
         THEN <<Head(sorted_sections)>> \o insert_by_duration(Tail(sorted_sections), sec)
         ELSE <<sec>> \o sorted_sections

\* sorted(secs, key=lambda sec: sec.duration, reverse=True)
RECURSIVE sorted_by_duration_reverse(_)
sorted_by_duration_reverse(secs) ==
    IF secs = <<>> THEN <<>>
    ELSE insert_by_duration(sorted_by_duration_reverse(SubSeq(secs, 1, Len(secs) - 1)),
                            secs[Len(secs)])

\* get_longest_section (the same in both copies): self.sections is not written.
get_longest_section(secs, offset) ==
    LET sorted_sections == sorted_by_duration_reverse(secs)
    IN  PyIndex(sorted_sections, offset)

(***************************************************************************)
(* Masher.separate.  The class attributes audio_loader and separator are   *)
(* "None" (the class body's value), "set" (an adapter / a separator) or    *)
(* "deleted" (after del).  AudioAdapter and Separator are names local to   *)
(* separate, bound only by the imports inside `if cls.audio_loader is      *)
(* None`.  fail names the external call that raises, "none" when all       *)
(* succeed.  Returns the outcome, the class attributes after the call and  *)
(* the files saved.                                                        *)
(***************************************************************************)
\* The track file names the calls are given.
Filenames == {"a", "b"}

\* prediction.items() of spleeter:2stems, in order
StemKinds == <<"vocals", "accompaniment">>

\* The external calls of separate, in the order they are made.
FailPoints == {"import", "default", "Separator", "load", "separate", "save1", "save2"}

\* str(key)[0].capitalize() and str(key).capitalize()
Initial(kind) == IF kind = "vocals" THEN "V" ELSE "A"
Capitalized(kind) == IF kind = "vocals" THEN "Vocals" ELSE "Accompaniment"

SepResult(status, loader, sep, files) ==
    [status |-> status, audio_loader |-> loader, separator |-> sep, files |-> files]

separate(loader, sep, save, filename, fail) ==
    IF loader = "deleted" THEN SepResult("AttributeError", loader, sep, {})
    ELSE IF loader # "None" THEN SepResult("UnboundLocalError", loader, sep, {})
    ELSE IF fail \in {"import", "default"} THEN SepResult("ExternalError", loader, sep, {})
    ELSE IF fail = "Separator" THEN SepResult("ExternalError", "set", sep, {})
    ELSE IF fail \in {"load", "separate"} THEN SepResult("ExternalError", "set", "set", {})
    ELSE IF save /\ fail = "save1" THEN SepResult("ExternalError", "set", "set", {})
    ELSE IF save /\ fail = "save2"
         THEN SepResult("ExternalError", "set", "set", {<<filename, Initial(StemKinds[1])>>})
    ELSE SepResult("returned", "deleted", "deleted",
                   IF save THEN {<<filename, Initial(StemKinds[k])>> : k \in DOMAIN StemKinds}
                           ELSE {})

\* The older separate (src/masher.py): the attributes stay set.
separate_root(loader, sep, save, filename, fail) ==
    IF loader = "deleted" THEN SepResult("AttributeError", loader, sep, {})
    ELSE IF loader # "None" THEN SepResult("UnboundLocalError", loader, sep, {})
    ELSE IF fail \in {"import", "default"} THEN SepResult("ExternalError", loader, sep, {})
    ELSE IF fail = "Separator" THEN SepResult("ExternalError", "set", sep, {})
    ELSE IF fail \in {"load", "separate"} THEN SepResult("ExternalError", "set", "set", {})
    ELSE IF save /\ fail = "save1" THEN SepResult("ExternalError", "set", "set", {})
    ELSE IF save /\ fail = "save2"
         THEN SepResult("ExternalError", "set", "set", {<<filename, Capitalized(StemKinds[1])>>})
    ELSE SepResult("returned", "set", "set",
                   IF save THEN {<<filename, Capitalized(StemKinds[k])>> : k \in DOMAIN StemKinds}
                           ELSE {})

(***************************************************************************)
(* Masher.get_yt_song(query, out): the search request, the first video id  *)
(* found in the page, the pytube download and convert_mp4_wav, which calls *)
(* subprocess.call(cmd) with cmd one string and no shell: a POSIX system   *)
(* takes the whole string as the name of the program and raises            *)
(* FileNotFoundError; Windows runs it as a command line and raises the     *)
(* same when ffmpeg is not installed.  Returns the outcome.                *)
(***************************************************************************)
\* The external calls of get_yt_song, in the order they are made.
YtFailPoints == {"request", "findall", "YouTube", "first", "download", "call"}

get_yt_song(os_name, fail) ==
    IF fail = "request" THEN "ExternalError"
    ELSE IF fail = "findall" THEN "IndexError"
    ELSE IF fail = "YouTube" THEN "ExternalError"
    ELSE IF fail = "first" THEN "AttributeError"
    ELSE IF fail = "download" THEN "ExternalError"
    ELSE IF os_name = "posix" \/ fail = "call" THEN "FileNotFoundError"
    ELSE "returned"

(***************************************************************************)
(* Masher.get_song.  The current copy returns get_song_from_json of an     *)
(* existing info file without downloading or separating; otherwise         *)
(* get_yt_song, separate and get_song_from_search (two Spotify requests,   *)
(* then the MashSong constructor) run in turn.  The older copy evaluates   *)
(* query + artist first, which raises TypeError for the default artist     *)
(* None.  fail names the external call that raises.  Returns the outcome,  *)
(* the class attributes after the call and the files saved.                *)
(***************************************************************************)
GetSongFailPoints == YtFailPoints \cup FailPoints \cup {"search", "none"}

get_song(os_name, loader, sep, save, file, info_file, fail) ==
    IF info_file
    THEN SepResult(NewSong(file, 0, "major", RInt(1), {}).status, loader, sep, {})
    ELSE LET yt == get_yt_song(os_name, fail)
             r == separate(loader, sep, save, file, fail)
         IN  IF yt # "returned" THEN SepResult(yt, loader, sep, {})
             ELSE IF r.status # "returned" THEN r
             ELSE IF fail = "search"
             THEN SepResult("ExternalError", r.audio_loader, r.separator, r.files)
             ELSE SepResult(NewSong(file, 0, "major", RInt(1), {}).status,
                            r.audio_loader, r.separator, r.files)

get_song_root(os_name, loader, sep, save, out, artist, fail) ==
    IF artist = None THEN SepResult("TypeError", loader, sep, {})
    ELSE LET yt == get_yt_song(os_name, fail)
             r == separate_root(loader, sep, save, out, fail)
         IN  IF yt # "returned" THEN SepResult(yt, loader, sep, {})
             ELSE IF r.status # "returned" THEN r
             ELSE IF fail = "search"
             THEN SepResult("ExternalError", r.audio_loader, r.separator, r.files)
             ELSE SepResult(NewSong_root(out, 0, RInt(1), {}).status,
                            r.audio_loader, r.separator, r.files)

(***************************************************************************)
(* Each specification runs one part of the program; the variables of the   *)
(* other parts stay as they are here.                                      *)
(***************************************************************************)
TempoIdle ==
    /\ self_bpm = RInt(1) /\ target_bpm = RInt(1)
    /\ closest_bpm = None /\ bpm_pc = "idle"

KeyIdle ==
    /\ self_key = [tonic |-> 0, mode |-> "major"]
    /\ target_key = [tonic |-> 0, mode |-> "major"]
    /\ key_shift = None /\ key_pc = "idle"

SongIdle ==
    /\ song = [id \in SongIds |-> None]
    /\ last = [op |-> "idle"]

SyncIdle ==
    /\ analysis = <<>> /\ measures = <<>> /\ sections = <<>>
    /\ loop_measures = <<>> /\ sync_i = 0
    /\ init_status = "idle" /\ longest = None

SepIdle ==
    /\ audio_loader = "None" /\ separator = "None"
    /\ save_data = TRUE /\ wav_list = <<>> /\ sep_i = 0
    /\ sep_status = "idle" /\ saved = {}

(***************************************************************************)
(* SpecTempo: find_closest_bpm applied to every pair of tempos.            *)
(***************************************************************************)
BpmValues == {RInt(n) : n \in 1 .. MaxBpm}

CallFindClosestBpm ==
    /\ bpm_pc = "call"
    /\ closest_bpm' = Some(find_closest_bpm(self_bpm, target_bpm))
    /\ bpm_pc' = "done"
    /\ UNCHANGED <<self_bpm, target_bpm, key_vars, song_vars, sync_vars, sep_vars>>

InitTempo ==
    /\ self_bpm \in BpmValues /\ target_bpm \in BpmValues
    /\ closest_bpm = None /\ bpm_pc = "call"
    /\ variant = "mashsong" /\ platform = "posix"
    /\ KeyIdle /\ SongIdle /\ SyncIdle /\ SepIdle

NextTempo == CallFindClosestBpm

SpecTempo == InitTempo /\ [][NextTempo]_vars

(***************************************************************************)
(* SpecKey: find_closest_key_shift applied to every pair of keys.          *)
(***************************************************************************)
CallFindClosestKeyShift ==
    /\ key_pc = "call"
    /\ key_shift' = find_closest_key_shift(self_key, target_key)
    /\ key_pc' = IF key_shift' = None THEN "loop" ELSE "done"
    /\ UNCHANGED <<self_key, target_key, tempo_vars, song_vars, sync_vars, sep_vars>>

InitKey ==
    /\ self_key \in Keys /\ target_key \in Keys
    /\ key_shift = None /\ key_pc = "call"
    /\ variant = "mashsong" /\ platform = "posix"
    /\ TempoIdle /\ SongIdle /\ SyncIdle /\ SepIdle

NextKey == CallFindClosestKeyShift

SpecKey == InitKey /\ [][NextKey]_vars

(***************************************************************************)
(* Loading the songs, as __main__ of the copy that runs does it.           *)
(* src/__main__.py calls get_song_from_json twice: each MashSong is built  *)
(* by the constructor.  src/mashsong/__main__.py calls Masher.get_song,    *)
(* which may download and separate the track before the constructor runs.  *)
(* An exception ends the program.                                          *)
(***************************************************************************)
SecRanges == {<<0, MaxSec>>, <<MaxSec, MaxSec>>}
SongBpms == {RInt(n) : n \in 1 .. MaxSongBpm}
MashStems == {"Vocals", "Accompaniment"}
\* The stem files found on disk: named by the older separate, or by the current one.
StemSets == {MashStems, {"V", "A"}}

LoadSongs ==
    /\ last.op = "start"
    /\ IF variant = "mashsong"
       THEN \E file \in Filenames, info_file \in BOOLEAN, fail \in GetSongFailPoints :
               LET r == get_song(platform, audio_loader, separator, save_data,
                                 file, info_file, fail)
               IN  /\ last' = [op |-> "get_song", status |-> r.status]
                   /\ audio_loader' = r.audio_loader
                   /\ separator' = r.separator
                   /\ saved' = saved \cup r.files
                   /\ UNCHANGED song
       ELSE \E kv \in Keys, ka \in Keys, bv \in SongBpms, ba \in SongBpms, names \in StemSets :
               LET v == NewSong_root("voc", kv.tonic, bv, names)
                   a == NewSong_root("acc", ka.tonic, ba, names)
               IN  /\ IF v.status # "ok"
                      THEN /\ last' = [op |-> "MashSong", status |-> v.status]
                           /\ UNCHANGED song
                      ELSE IF a.status # "ok"
                      THEN /\ last' = [op |-> "MashSong", status |-> a.status]
                           /\ UNCHANGED song
                      ELSE /\ song' = [id \in SongIds |-> IF id = "voc" THEN v.song ELSE a.song]
                           /\ last' = [op |-> "loaded", status |-> "ok"]
                   /\ UNCHANGED <<audio_loader, separator, saved>>
    /\ UNCHANGED <<variant, platform, save_data, wav_list, sep_i, sep_status,
                   tempo_vars, key_vars, sync_vars>>

InitSongs ==
    /\ variant \in {"mashsong", "root"}
    /\ platform \in {"posix", "nt"}
    /\ song = [id \in SongIds |-> None]
    /\ last = [op |-> "start"]
    /\ TempoIdle /\ KeyIdle /\ SyncIdle /\ SepIdle

(***************************************************************************)
(* SpecMash: two songs are loaded and Masher.mash is called once.          *)
(***************************************************************************)
Mash ==
    /\ last.op = "loaded"
    /\ \E voc_secs \in SecRanges, acc_secs \in SecRanges,
          pitch_voc \in BOOLEAN, voc_longer \in BOOLEAN :
          LET r == IF variant = "mashsong"
                   THEN mash(song, "voc", "acc", voc_secs, acc_secs, pitch_voc, voc_longer)
                   ELSE mash_root(song, "voc", "acc", voc_secs, acc_secs, pitch_voc)
          IN  /\ song' = r.songs
              /\ last' = [op |-> "mash", status |-> r.status, ret |-> r.ret,
                          pitch_voc |-> pitch_voc, before |-> song]
    /\ UNCHANGED <<tempo_vars, key_vars, sync_vars, sep_vars>>

NextMash == LoadSongs \/ Mash

SpecMash == InitSongs /\ [][NextMash]_vars

(***************************************************************************)
(* SpecStem: two songs are loaded and create_mash_stem is called once, on  *)
(* either song, with or without the other song as target_song.  The two    *)
(* optional values are shift_amt and bpm_ratio in src/mashsong/mashdata.py, *)
(* target_key and target_bpm in src/mashdata.py.                           *)
(***************************************************************************)
NewStemNames == {"test", "Vocals"}
SrcStemTypes == {"Vocals", "A"}
ShiftAmts == {None, Some(0), Some(2)}
BpmRatios == {None, Some(<<3, 2>>)}
TargetKeys == {None, Some(0), Some(5)}
TargetBpms == {None, Some(RInt(2))}

Other(id) == IF id = "voc" THEN "acc" ELSE "voc"

CreateMashStem ==
    /\ last.op = "loaded"
    /\ \E me \in SongIds, new_stem_name \in NewStemNames, src_stem_type \in SrcStemTypes,
          secs \in SecRanges,
          key_arg \in (IF variant = "mashsong" THEN ShiftAmts ELSE TargetKeys),
          bpm_arg \in (IF variant = "mashsong" THEN BpmRatios ELSE TargetBpms) :
       \E target_song \in {None, Some(Other(me))} :
          LET r == IF variant = "mashsong"
                   THEN create_mash_stem(song, me, new_stem_name, src_stem_type, secs,
                                         key_arg, bpm_arg, target_song)
                   ELSE create_mash_stem_root(song, me, new_stem_name, src_stem_type, secs,
                                              key_arg, bpm_arg, target_song)
          IN  /\ song' = r.songs
              /\ last' = [op |-> "create_mash_stem", status |-> r.status, ret |-> r.ret,
                          used_shift |-> r.shift_amt, used_ratio |-> r.bpm_ratio,
                          me |-> me, new_stem_name |-> new_stem_name,
                          arg_shift |-> key_arg, arg_ratio |-> bpm_arg,
                          target_song |-> target_song, before |-> song]
    /\ UNCHANGED <<tempo_vars, key_vars, sync_vars, sep_vars>>

NextStem == LoadSongs \/ CreateMashStem

SpecStem == InitSongs /\ [][NextStem]_vars

(***************************************************************************)
(* SpecSync: MashSong.__init__ of the copy that runs is given the analysis *)
(* of a track; where it gets that far it builds the sections and runs      *)
(* sync_sections_to_measures, one section per step, in track order;        *)
(* get_longest_section is then called on the song.                         *)
(***************************************************************************)
Times == 0 .. MaxTime

NonDecreasing(a) == \A i \in 1 .. Len(a) - 1 : a[i] <= a[i + 1]
StrictlyIncreasing(a) == \A i \in 1 .. Len(a) - 1 : a[i] < a[i + 1]

MeasureArrays ==
    UNION {{a \in [1 .. n -> Times] : NonDecreasing(a)} : n \in 1 .. MaxMeasures}

\* Section data: a section starts at 0 or where the section before it ends.
RECURSIVE SectionLists(_)
SectionLists(n) ==
    IF n = 0 THEN {<<>>}
    ELSE LET shorter == SectionLists(n - 1)
         IN  UNION {{Append(l, [start |-> st, duration |-> d]) :
                        st \in {0} \cup (IF l = <<>> THEN {}
                                         ELSE {l[Len(l)].start + l[Len(l)].duration}),
                        d \in 0 .. MaxTime} : l \in shorter}

\* MashSong.__init__ up to the call of sync_sections_to_measures.  The
\* current constructor raises NameError (see NewSong) before self.sections
\* and self.measures exist; the older one builds both.
Construct ==
    /\ init_status = "new"
    /\ IF variant = "mashsong"
       THEN /\ init_status' = NewSong("t", 0, "major", RInt(1), {}).status
            /\ UNCHANGED <<measures, sections, loop_measures>>
       ELSE /\ init_status' = "sync"
            /\ measures' \in MeasureArrays
            /\ sections' = [i \in 1 .. Len(analysis) |-> Section(analysis[i], i - 1)]
            /\ loop_measures' = measures'
    /\ UNCHANGED <<analysis, sync_i, longest, tempo_vars, key_vars, song_vars, sep_vars>>

SyncSection ==
    /\ init_status = "sync"
    /\ sync_i < Len(sections)
    /\ LET i == sync_i + 1
           sec == [sections[i] EXCEPT !.track_measures = loop_measures]
           r == IF variant = "mashsong" THEN sync_to_measure(sec)
                                        ELSE sync_to_measure_root(sec)
       IN  /\ sections' = [sections EXCEPT ![i] = r.section]
           /\ loop_measures' = NpDeleteTo(loop_measures, r.end_ind)
    /\ sync_i' = sync_i + 1
    /\ UNCHANGED <<analysis, measures, init_status, longest,
                   tempo_vars, key_vars, song_vars, sep_vars>>

\* A call of song.get_longest_section(offset) on the constructed song.
GetLongestSection ==
    /\ init_status = "sync"
    /\ sync_i = Len(sections)
    /\ longest = None
    /\ \E offset \in 0 .. Len(sections) - 1 :
          longest' = Some([offset |-> offset, ret |-> get_longest_section(sections, offset),
                           before |-> sections])
    /\ UNCHANGED <<analysis, measures, sections, loop_measures, sync_i, init_status,
                   tempo_vars, key_vars, song_vars, sep_vars>>

InitSync ==
    /\ variant \in {"mashsong", "root"} /\ platform = "posix"
    /\ analysis \in UNION {SectionLists(n) : n \in 1 .. MaxSections}
    /\ measures = <<>> /\ sections = <<>> /\ loop_measures = <<>>
    /\ sync_i = 0
    /\ init_status = "new"
    /\ longest = None
    /\ TempoIdle /\ KeyIdle /\ SongIdle /\ SepIdle

NextSync == Construct \/ SyncSection \/ GetLongestSection

SpecSync == InitSync /\ [][NextSync]_vars

(***************************************************************************)
(* SpecSeparate: one process calls Masher.get_song any number of times and *)
(* then Masher.separate_from_list(wav_list); each step of the list call is *)
(* one iteration of its loop, a whole call of separate.  An exception ends *)
(* the process.                                                            *)
(***************************************************************************)
RECURSIVE SeqsUpTo(_, _)
SeqsUpTo(S, n) ==
    IF n = 0 THEN {<<>>}
    ELSE LET shorter == SeqsUpTo(S, n - 1)
         IN  shorter \cup {Append(l, x) : l \in {q \in shorter : Len(q) = n - 1}, x \in S}

\* A call of Masher.get_song; the process goes on when it returns a song.
GetSong ==
    /\ sep_status = "ready"
    /\ \E file \in Filenames, fail \in GetSongFailPoints,
          info_file \in BOOLEAN, artist \in {None, Some("x")} :
          LET r == IF variant = "mashsong"
                   THEN get_song(platform, audio_loader, separator, save_data,
                                 file, info_file, fail)
                   ELSE get_song_root(platform, audio_loader, separator, save_data,
                                      file, artist, fail)
          IN  /\ audio_loader' = r.audio_loader
              /\ separator' = r.separator
              /\ saved' = saved \cup r.files
              /\ sep_status' = IF r.status = "ok" THEN "ready" ELSE r.status
              /\ last' = [op |-> "get_song", status |-> r.status]
    /\ UNCHANGED <<variant, platform, save_data, wav_list, sep_i, song,
                   tempo_vars, key_vars, sync_vars>>

\* The call of separate_from_list(wav_list).
SeparateFromListCall ==
    /\ sep_status = "ready"
    /\ sep_status' = "running"
    /\ last' = [op |-> "separate_from_list"]
    /\ UNCHANGED <<variant, platform, audio_loader, separator, save_data, wav_list, sep_i, saved,
                   song, tempo_vars, key_vars, sync_vars>>

SeparateNext ==
    /\ sep_status = "running"
    /\ sep_i < Len(wav_list)
    /\ \E fail \in FailPoints \cup {"none"} :
          LET filename == wav_list[sep_i + 1]
              r == IF variant = "mashsong"
                   THEN separate(audio_loader, separator, save_data, filename, fail)
                   ELSE separate_root(audio_loader, separator, save_data, filename, fail)
          IN  /\ audio_loader' = r.audio_loader
              /\ separator' = r.separator
              /\ saved' = saved \cup r.files
              /\ sep_i' = IF r.status = "returned" THEN sep_i + 1 ELSE sep_i
              /\ sep_status' = IF r.status = "returned" THEN "running" ELSE r.status
    /\ UNCHANGED <<variant, platform, save_data, wav_list, tempo_vars, key_vars, song_vars, sync_vars>>

SeparateFromListReturn ==
    /\ sep_status = "running"
    /\ sep_i = Len(wav_list)
    /\ sep_status' = "returned"
    /\ UNCHANGED <<variant, platform, audio_loader, separator, save_data, wav_list, sep_i, saved,
                   tempo_vars, key_vars, song_vars, sync_vars>>

InitSeparate ==
    /\ variant \in {"mashsong", "root"}
    /\ platform \in {"posix", "nt"}
    /\ audio_loader = "None" /\ separator = "None"
    /\ save_data \in BOOLEAN
    /\ wav_list \in SeqsUpTo(Filenames, MaxList)
    /\ sep_i = 0 /\ sep_status = "ready" /\ saved = {}
    /\ TempoIdle /\ KeyIdle /\ SongIdle /\ SyncIdle

NextSeparate == GetSong \/ SeparateFromListCall \/ SeparateNext \/ SeparateFromListReturn

SpecSeparate == InitSeparate /\ [][NextSeparate]_vars

(***************************************************************************)
(* C3, as stated: transposing self's key by the returned shift yields      *)
(* target's key or target's relative key.                                  *)
(***************************************************************************)
C3_AsClaimed ==
    key_pc = "done" =>
        KeyOrRelative(transpose(Key(self_key), key_shift[1]), target_key)

\* The pairs of track keys for which the loop of find_closest_key_shift never ends.
NeverReturns(s_key, t_key) ==
    s_key.mode = "minor" /\ t_key = [tonic |-> 3, mode |-> "major"]

(***************************************************************************)
(* C3, amended: the call does not return when self is minor and target is  *)
(* D# major (key 3, mode 1), and returns for every other pair.  The shift  *)
(* returned is half of the way, rounded down, and lies in -3..3:           *)
(* transposing self's key by twice the returned shift yields target's key  *)
(* or target's relative key, or the key one semitone below one of them.    *)
(***************************************************************************)
C3_HalfWay ==
    key_pc # "call" =>
        IF NeverReturns(self_key, target_key) THEN key_pc = "loop"
        ELSE /\ key_pc = "done"
             /\ key_shift[1] \in -3 .. 3
             /\ LET twice == transpose(Key(self_key), 2 * key_shift[1])
                IN  \/ KeyOrRelative(twice, target_key)
                    \/ KeyOrRelative(transpose(twice, 1), target_key)

C3_Witness ==
    /\ key_pc = "done"
    /\ key_shift[1] = 2
    /\ SameKey(transpose(Key(self_key), 4), relative(Key(target_key)))

(***************************************************************************)
(* C4: find_closest_bpm returns self_bpm, 2*self_bpm or self_bpm/2, the    *)
(* candidate nearest to target_bpm, and self_bpm itself when self_bpm is   *)
(* as near as the nearest.                                                 *)
(***************************************************************************)
C4_ClosestOfThree ==
    bpm_pc = "done" =>
        LET ret == closest_bpm[1]
            cands == {self_bpm, RMul(self_bpm, RInt(2)), RDiv(self_bpm, RInt(2))}
            dist(c) == RAbs(RSub(target_bpm, c))
        IN  /\ ret \in cands
            /\ \A c \in cands : ~RLess(dist(c), dist(ret))
            /\ (~RLess(dist(ret), dist(self_bpm))) => ret = self_bpm

C4_Witness ==
    /\ bpm_pc = "done"
    /\ closest_bpm[1] = RMul(self_bpm, RInt(2))
    /\ RLess(closest_bpm[1], target_bpm)

(***************************************************************************)
(* C1: with the current copy (src/mashsong), two songs of any positive     *)
(* tempos are loaded and mashed, and after Masher.mash the vocal stem and  *)
(* the accompaniment stem are stretched to the same tempo: voc.bpm times   *)
(* the tempo ratio of VocMash equals acc.bpm times the tempo ratio of      *)
(* AccMash.                                                                *)
(***************************************************************************)
C1_SameTempo ==
    variant = "mashsong" =>
        /\ last.op = "get_song" => last.status # "NameError"
        /\ (last.op = "mash" /\ last.status = "ok") =>
              RMul(song["voc"].bpm, song["voc"].stems["VocMash"].tempo[1])
                  = RMul(song["acc"].bpm, song["acc"].stems["AccMash"].tempo[1])

(***************************************************************************)
(* C2: with the current copy, two songs of any keys are loaded and mashed, *)
(* and after Masher.mash voc's key transposed by the shift of VocMash and  *)
(* acc's key transposed by the shift of AccMash are the same key or        *)
(* relative keys.                                                          *)
(***************************************************************************)
C2_SameOrRelativeKey ==
    variant = "mashsong" =>
        /\ last.op = "get_song" => last.status # "NameError"
        /\ (last.op = "mash" /\ last.status = "ok") =>
              LET kv == transpose(Key(KeyOf(song["voc"])), song["voc"].stems["VocMash"].pitch[1])
                  ka == transpose(Key(KeyOf(song["acc"])), song["acc"].stems["AccMash"].pitch[1])
              IN  SameKey(kv, ka) \/ SameKey(kv, relative(ka))

(***************************************************************************)
(* C6: Masher.mash pitch-shifts and time-stretches exactly one stem, voc's *)
(* vocals when pitch_voc is true and acc's accompaniment when it is false, *)
(* and overlays it with the other song's stem left unprocessed.            *)
(***************************************************************************)
Shifted(stem) == stem.pitch # None /\ stem.tempo # None
Unprocessed(stem) == stem.pitch = None /\ stem.tempo = None /\ stem.board = "none"

C6_OnlyOneStemProcessed ==
    (last.op = "mash" /\ last.status = "ok") =>
        LET layers == {last.ret[1][1], last.ret[1][2]}
            mine == IF last.pitch_voc THEN <<"voc", "Vocals">> ELSE <<"acc", "Accompaniment">>
            theirs == IF last.pitch_voc THEN <<"acc", "Accompaniment">> ELSE <<"voc", "Vocals">>
        IN  /\ \E st \in layers : <<st.owner, st.src>> = mine /\ Shifted(st)
            /\ \E st \in layers : <<st.owner, st.src>> = theirs /\ Unprocessed(st)

(***************************************************************************)
(* C8: a song can be loaded and create_mash_stem called on it with a       *)
(* target_song, and then the shift and the tempo ratio used are the ones   *)
(* derived from target_song, whatever explicit values are passed in the    *)
(* same call.                                                              *)
(***************************************************************************)
C8_TargetSongOverrides ==
    /\ variant = "mashsong" =>
          /\ last.op = "get_song" => last.status # "NameError"
          /\ (last.op = "create_mash_stem" /\ last.status = "ok"
                 /\ last.target_song # None) =>
                LET me == last.before[last.me]
                    tgt == last.before[last.target_song[1]]
                    bpm == find_closest_bpm(me.bpm, tgt.bpm)
                IN  /\ last.used_shift = find_closest_key_shift(KeyOf(me), KeyOf(tgt))
                    /\ last.used_ratio = Some(RDiv(RDiv(RAdd(bpm, tgt.bpm), RInt(2)), bpm))
    /\ (variant = "root" /\ last.op = "create_mash_stem" /\ last.status = "ok"
           /\ last.target_song # None) =>
                LET me == last.before[last.me]
                    tgt == last.before[last.target_song[1]]
                IN  /\ last.used_shift = Some(<<tgt.key_no - me.key_no, 12>>)
                    /\ last.used_ratio = Some(RDiv(tgt.bpm, me.bpm))

(***************************************************************************)
(* C9: with the current copy, create_mash_stem can be called on a loaded   *)
(* song without target_song and with both shift_amt (any integer, 0        *)
(* included) and a positive bpm_ratio; it then succeeds and applies        *)
(* exactly those values.                                                   *)
(***************************************************************************)
C9_ExplicitValuesNeedNoTarget ==
    variant = "mashsong" =>
        /\ last.op = "get_song" => last.status # "NameError"
        /\ (/\ last.op = "create_mash_stem"
            /\ last.target_song = None /\ last.arg_shift # None /\ last.arg_ratio # None
            /\ last.status # "KeyError") =>
              /\ last.status = "ok"
              /\ last.ret[1].pitch = last.arg_shift
              /\ last.ret[1].tempo = last.arg_ratio

(***************************************************************************)
(* C10: after a successful create_mash_stem, self.stems[new_stem_name] is  *)
(* the stem returned and every other entry of self.stems is as before.     *)
(***************************************************************************)
C10_StemsFrame ==
    (last.op = "create_mash_stem" /\ last.status = "ok") =>
        LET now == song[last.me].stems
            was == last.before[last.me].stems
        IN  /\ DOMAIN now = DOMAIN was \cup {last.new_stem_name}
            /\ now[last.new_stem_name] = last.ret[1]
            /\ \A n \in DOMAIN was \ {last.new_stem_name} : now[n] = was[n]

C10_Witness ==
    /\ variant = "root" /\ last.op = "create_mash_stem" /\ last.status = "ok"
    /\ last.new_stem_name \notin DOMAIN last.before[last.me].stems
    /\ Cardinality(DOMAIN song[last.me].stems) = 3

(***************************************************************************)
(* C5: the current constructor completes, and after it, over a strictly    *)
(* increasing measures array, each section's end_time is the measure       *)
(* closest to the section's original end time (start + duration of the     *)
(* analysis), the earlier one on a tie.                                    *)
(***************************************************************************)
Dist(x, y) == IF x < y THEN y - x ELSE x - y

ClosestMeasure(ms, t) ==
    CHOOSE m \in {ms[i] : i \in 1 .. Len(ms)} :
        \A i \in 1 .. Len(ms) :
            Dist(t, m) < Dist(t, ms[i]) \/ (Dist(t, m) = Dist(t, ms[i]) /\ m <= ms[i])

C5_EndIsClosestMeasure ==
    variant = "mashsong" =>
        /\ init_status \in {"new", "sync"}
        /\ (/\ init_status = "sync"
            /\ sync_i = Len(sections) /\ StrictlyIncreasing(measures)) =>
              \A i \in 1 .. Len(sections) :
                  sections[i].end_time
                      = ClosestMeasure(measures, analysis[i].start + analysis[i].duration)

(***************************************************************************)
(* C7: once called, separate_from_list runs separate on every filename of  *)
(* the list and returns normally unless an external load, separate or save *)
(* call fails: the class attributes never make a call of separate raise.   *)
(***************************************************************************)
C7_SeparateRunsWholeList ==
    last.op = "separate_from_list" =>
        /\ sep_status \notin {"AttributeError", "UnboundLocalError"}
        /\ sep_status = "returned" => sep_i = Len(wav_list)

(***************************************************************************)
(* C11, as stated: when self's key and target's key are parallel keys      *)
(* (same tonic pitch class, one major and one minor),                      *)
(* find_closest_key_shift returns 0.                                       *)
(***************************************************************************)
C11_ParallelIsZero ==
    (key_pc = "done" /\ target_key = parallel(self_key)) => key_shift = Some(0)

(***************************************************************************)
(* C11, amended: parallel keys are not treated as equivalent.  The loop    *)
(* stops at target's relative key, 3 semitones above a major self and 9    *)
(* above a minor self, and half of that way is returned: 1 when self is    *)
(* major and target its parallel minor, -2 when self is minor and target   *)
(* its parallel major; from D# minor to D# major the call does not return. *)
(***************************************************************************)
C11_ParallelHalfWayToRelative ==
    (key_pc # "call" /\ target_key = parallel(self_key)) =>
        /\ self_key.mode = "major" =>
              /\ key_shift = Some(1)
              /\ SameKey(transpose(Key(self_key), 3), relative(Key(target_key)))
        /\ (self_key.mode = "minor" /\ self_key.tonic # 3) =>
              /\ key_shift = Some(-2)
              /\ SameKey(transpose(Key(self_key), -3), relative(Key(target_key)))
        /\ (self_key.mode = "minor" /\ self_key.tonic = 3) => key_pc = "loop"

C11_Witness ==
    /\ key_pc = "done"
    /\ self_key = [tonic |-> 0, mode |-> "minor"]
    /\ target_key = [tonic |-> 0, mode |-> "major"]
    /\ key_shift = Some(-2)

(***************************************************************************)
(* C12: when target's key equals self's key, or is the relative key of     *)
(* self's key, find_closest_key_shift returns, and returns 0.              *)
(***************************************************************************)
C12_SameOrRelativeIsZero ==
    (key_pc # "call" /\ KeyOrRelative(Key(target_key), self_key)) =>
        key_shift = Some(0)

(***************************************************************************)
(* C13: the older create_mash_stem (src/mashdata.py) called without        *)
(* target_song raises ValueError when target_key or target_bpm is missing, *)
(* and does not raise ValueError when both are given, target_key 0         *)
(* included.                                                               *)
(***************************************************************************)
C13_ValueErrorIffMissing ==
    (variant = "root" /\ last.op = "create_mash_stem" /\ last.target_song = None) =>
        (last.status = "ValueError"
            <=> (last.arg_shift = None \/ last.arg_ratio = None))

(***************************************************************************)
(* C14: get_longest_section(offset), for 0 <= offset < number of sections, *)
(* returns the section with exactly offset sections before it in the order *)
(* by decreasing duration, sections of equal duration in track order, and  *)
(* leaves self.sections as it was.                                         *)
(***************************************************************************)
C14_LongestByOffset ==
    longest # None =>
        LET l == longest[1]
            secs == l.before
            Precedes(k, j) ==
                \/ secs[k].duration > secs[j].duration
                \/ secs[k].duration = secs[j].duration /\ k < j
        IN  /\ \E j \in 1 .. Len(secs) :
                  /\ l.ret = secs[j]
                  /\ Cardinality({k \in 1 .. Len(secs) : Precedes(k, j)}) = l.offset
            /\ l.offset = 0 => \A k \in 1 .. Len(secs) : l.ret.duration >= secs[k].duration
            /\ sections = secs

C14_Witness ==
    /\ longest # None
    /\ Len(sections) = 2
    /\ sections[1].duration = sections[2].duration
    /\ longest[1].offset = 1
    /\ longest[1].ret = sections[2]

(***************************************************************************)
(* C15: MashSong construction (src/mashsong) completes, and after it every *)
(* section's start_time and end_time are elements of song.measures and     *)
(* start_time <= end_time.                                                 *)
(***************************************************************************)
C15_TimesAreMeasures ==
    variant = "mashsong" =>
        /\ init_status # "NameError"
        /\ (init_status = "sync" /\ sync_i = Len(sections)) =>
              \A i \in 1 .. Len(sections) :
                  /\ \E m \in 1 .. Len(measures) : sections[i].start_time = measures[m]
                  /\ \E m \in 1 .. Len(measures) : sections[i].end_time = measures[m]
                  /\ sections[i].start_time <= sections[i].end_time

(***************************************************************************)
(* C16: after sync_sections_to_measures the sections are contiguous: the   *)
(* first section starts at measures[0] and every later section starts      *)
(* where the section before it ends.                                       *)
(***************************************************************************)
C16_Contiguous ==
    (init_status = "sync" /\ sync_i = Len(sections)) =>
        /\ sections[1].start_time = measures[1]
        /\ \A i \in 2 .. Len(sections) :
              sections[i].start_time = sections[i - 1].end_time

C16_Witness ==
    /\ init_status = "sync" /\ sync_i = Len(sections) /\ Len(sections) = 2
    /\ sections[2].start_time > measures[1]
    /\ sections[2].start_time = sections[1].end_time
    /\ sections[2].end_time > sections[2].start_time

====
